---- MODULE Spec2Model ----
(***************************************************************************)
(* Model of the Pomodoro cycle engine of main.py (PomodoroManager), the    *)
(* persisted study-time counter (study_time.json) and the part of the task *)
(* table the engine writes to.                                             *)
(*                                                                         *)
(* Time.  The wall clock `now` counts units of 1/Res second, so that the   *)
(* truncation int(total_session_time) is visible.  The clock never goes    *)
(* back.  The QTimer of the engine fires no earlier than 1000 ms after it  *)
(* was (re)started or last fired, and at most MaxLate clock units late.    *)
(* A minute of the settings dialog has SecsPerMin seconds in the model     *)
(* (60 in main.py): the engine only compares and decrements the durations. *)
(* Storage (the JSON file, the database) is taken to work: no I/O errors.  *)
(* A Python float has FloatBits bits of mantissa in the model (53 in       *)
(* CPython): int(float(n)) is exact below 2^FloatBits and rounds above.    *)
(***************************************************************************)
EXTENDS Integers, Sequences, FiniteSets, TLC

\* ---------------------------------------------------------------- bounds
Res == 2            \* clock units per second
MaxTime == 12       \* the clock stops advancing here
MaxLate == 0        \* how many clock units a timer tick may be late
SecsPerMin == 1     \* model seconds in one minute of the settings
FloatBits == 10     \* mantissa bits of a float

\* ------------------------------------------------------------- constants
None == 0 - 1       \* Python None for a timestamp (session_start_time)
NoTask == 0         \* Python None / falsy value for a task id
LegacyMinuteSecs == 60
DefaultFocusMin == 25
DefaultShortMin == 5
DefaultLongMin == 15
DefaultEvery == 4

Phases == {"Focus", "Short Break", "Long Break"}

Max(a, b) == IF a >= b THEN a ELSE b

\* int(x) of a time span held in clock units: whole seconds, towards zero
IntSecs(t) == IF t >= 0 THEN t \div Res ELSE 0 - ((0 - t) \div Res)

\* ------------------------------------------------- study_time.json (file)
\* A key of the JSON object: absent, a number (or numeric string), or a
\* value int(float(..)) rejects.
Absent == [k |-> "absent", v |-> 0]
Num(n) == [k |-> "num", v |-> n]
Bad == [k |-> "bad", v |-> 0]

MissingFile == [st |-> "missing", total_seconds |-> Absent, total_minutes |-> Absent]
CorruptFile == [st |-> "corrupt", total_seconds |-> Absent, total_minutes |-> Absent]
JsonFile(s, m) == [st |-> "ok", total_seconds |-> s, total_minutes |-> m]

\* integers up to this one are floats
FloatExactMax == 2 ^ FloatBits

RECURSIVE Ulp(_, _)
\* the spacing of the floats around n >= FloatExactMax: the least power of
\* two u with n < u * 2^FloatBits
Ulp(n, u) == IF n < u * FloatExactMax THEN u ELSE Ulp(n, 2 * u)

\* float(n) of a natural number: the nearest float, ties to the even mantissa
FloatNat(n) ==
    IF n <= FloatExactMax THEN n
    ELSE LET u == Ulp(n, 2)
             q == n \div u
             r == n % u
         IN IF 2 * r > u \/ (2 * r = u /\ q % 2 = 1) THEN (q + 1) * u ELSE q * u

\* int(float(n)) of an integer
IntFloat(n) == IF n >= 0 THEN FloatNat(n) ELSE 0 - FloatNat(0 - n)

\* int(float(data.get(key) or 0)) inside try/except -> 0
CoerceInt(kv) == IF kv.k = "num" THEN IntFloat(kv.v) ELSE 0

\* json.dump({'total_seconds': max(0, int(float(seconds or 0)))})
save_study_time(seconds) == JsonFile(Num(Max(0, IntFloat(seconds))), Absent)

\* faulty variant: the value read is not clamped at zero
load_study_time_NoClamp(f) ==
    IF f.st # "ok" THEN 0
    ELSE IF f.total_seconds.k # "absent" THEN CoerceInt(f.total_seconds)
    ELSE IF f.total_minutes.k # "absent"
         THEN CoerceInt(f.total_minutes) * LegacyMinuteSecs
    ELSE 0

\* the value load_study_time() returns
load_study_time(f) ==
    IF f.st # "ok" THEN 0
    ELSE IF f.total_seconds.k # "absent" THEN Max(0, CoerceInt(f.total_seconds))
    ELSE IF f.total_minutes.k # "absent"
         THEN Max(0, CoerceInt(f.total_minutes)) * LegacyMinuteSecs
    ELSE 0

\* faulty variant: every load migrates, and adds the value it loaded to
\* the stored one instead of storing it
load_study_time_file_Remigrates(f) ==
    IF f.st = "ok"
    THEN save_study_time(load_study_time(f) + load_study_time(f))
    ELSE f

\* the file load_study_time() leaves behind (the legacy migration)
load_study_time_file(f) ==
    IF f.st = "ok" /\ f.total_seconds.k = "absent" /\ f.total_minutes.k # "absent"
    THEN save_study_time(load_study_time(f))
    ELSE f

\* faulty variant: stores the increment instead of the new total
add_study_time_Overwrites(f, seconds) == save_study_time(seconds)

add_study_time(f, seconds) == save_study_time(load_study_time(f) + seconds)

\* faulty variant: a full minute is still shown in seconds
format_study_time_Le(seconds) ==
    IF seconds <= 60 THEN ToString(seconds) \o " seconds"
    ELSE IF seconds < 3600
         THEN ToString(seconds \div 60) \o "m " \o ToString(seconds % 60) \o "s"
    ELSE IF seconds < 86400
         THEN ToString(seconds \div 3600) \o "h " \o ToString((seconds % 3600) \div 60) \o "m"
    ELSE IF seconds < 31536000
         THEN ToString(seconds \div 86400) \o "d " \o ToString((seconds % 86400) \div 3600) \o "h"
    ELSE ToString(seconds \div 31536000) \o "y "
             \o ToString((seconds % 31536000) \div 86400) \o "d"

\* format_study_time (main.py 79-97); f"{n}" of an integer is ToString(n)
format_study_time(seconds) ==
    IF seconds < 60 THEN ToString(seconds) \o " seconds"
    ELSE IF seconds < 3600
         THEN ToString(seconds \div 60) \o "m " \o ToString(seconds % 60) \o "s"
    ELSE IF seconds < 86400
         THEN ToString(seconds \div 3600) \o "h " \o ToString((seconds % 3600) \div 60) \o "m"
    ELSE IF seconds < 31536000
         THEN ToString(seconds \div 86400) \o "d " \o ToString((seconds % 86400) \div 3600) \o "h"
    ELSE ToString(seconds \div 31536000) \o "y "
             \o ToString((seconds % 31536000) \div 86400) \o "d"

\* ------------------------------------------------------- SettingsManager
DefaultSettings ==
    [focus_secs |-> DefaultFocusMin * SecsPerMin,
     short_break_secs |-> DefaultShortMin * SecsPerMin,
     long_break_secs |-> DefaultLongMin * SecsPerMin,
     long_break_every |-> DefaultEvery]

\* faulty variant: the inputs are stored as given
set_from_minutes_NoClamp(focus_m, short_m, long_m, every_n) ==
    [focus_secs |-> focus_m * SecsPerMin,
     short_break_secs |-> short_m * SecsPerMin,
     long_break_secs |-> long_m * SecsPerMin,
     long_break_every |-> every_n]

set_from_minutes(focus_m, short_m, long_m, every_n) ==
    [focus_secs |-> Max(1, focus_m) * SecsPerMin,
     short_break_secs |-> Max(1, short_m) * SecsPerMin,
     long_break_secs |-> Max(1, long_m) * SecsPerMin,
     long_break_every |-> Max(1, every_n)]

\* what the spin boxes of the settings dialog can hand over
DialogMinutes == {1}
DialogEvery == {1, 2}

\* ------------------------------------------------------------- variables
VARIABLES
    settings_manager,       \* the global SettingsManager
    floating,               \* TaskTracker._floating exists (engine constructed)
    phase, remaining, is_running, completed_focus_count,
    attached_task_id, session_start_time, total_session_time,
    on_complete_cycle,      \* whether a cycle callback is registered
    timer_active, timer_deadline,   \* the QTimer: running, earliest next fire
    now,                    \* wall clock, in 1/Res seconds
    study_file,             \* study_time.json
    tasks,                  \* the tasks table, by id
    calls,                  \* callbacks made by the last handler, in order
    op,                     \* the last handler that ran
    focus_ends,             \* history: Focus phases ended by countdown
    focus_run_time,         \* history: clock units spent running in Focus
    study_base,             \* history: counter value at construction
    file_io,                \* history: the last call of a file function
    attached_deleted        \* history: the attached task was deleted since

vars == <<settings_manager, floating, phase, remaining, is_running, completed_focus_count,
          attached_task_id, session_start_time, total_session_time,
          on_complete_cycle, timer_active, timer_deadline, now, study_file,
          tasks, calls, op, focus_ends, focus_run_time, study_base, file_io,
          attached_deleted>>

\* ------------------------------------------------------------ task table
\* the rowids the model lets the table use
TaskIds == {1}
NoRow == [present |-> FALSE, completed |-> FALSE, pomodoros |-> 0]
NewRow == [present |-> TRUE, completed |-> FALSE, pomodoros |-> 0]

\* INTEGER PRIMARY KEY: the new rowid is one more than the largest in use
NextRowId(t) == IF \E i \in DOMAIN t : t[i].present
                THEN 1 + CHOOSE i \in DOMAIN t : t[i].present /\ \A j \in DOMAIN t : t[j].present => j <= i
                ELSE 1

increment_pomodoro(t, task_id) ==
    IF task_id = NoTask THEN t
    ELSE IF task_id \in DOMAIN t /\ t[task_id].present
         THEN [t EXCEPT ![task_id].pomodoros = @ + 1]
    ELSE t

\* ------------------------------------------------------- PomodoroManager
\* The engine and what its handlers read and write, as one record the
\* methods map (settings_manager is the global the methods read).
Self ==
    [settings_manager |-> settings_manager,
     phase |-> phase, remaining |-> remaining, is_running |-> is_running,
     completed_focus_count |-> completed_focus_count,
     attached_task_id |-> attached_task_id,
     session_start_time |-> session_start_time,
     total_session_time |-> total_session_time,
     timer_active |-> timer_active, timer_deadline |-> timer_deadline,
     study_file |-> study_file, tasks |-> tasks, calls |-> <<>>,
     attached_deleted |-> attached_deleted]

Commit(s) ==
    /\ phase' = s.phase
    /\ remaining' = s.remaining
    /\ is_running' = s.is_running
    /\ completed_focus_count' = s.completed_focus_count
    /\ attached_task_id' = s.attached_task_id
    /\ session_start_time' = s.session_start_time
    /\ total_session_time' = s.total_session_time
    /\ timer_active' = s.timer_active
    /\ timer_deadline' = s.timer_deadline
    /\ study_file' = s.study_file
    /\ tasks' = s.tasks
    /\ calls' = s.calls
    /\ attached_deleted' = s.attached_deleted

Call(name, s) == [cb |-> name, phase |-> s.phase, remaining |-> s.remaining]

\* FloatingPomodoroWidget._on_phase_change: redraws and reloads the counter
\* (load_study_time migrates a legacy file)
_on_phase_change(s) == [s EXCEPT !.study_file = load_study_time_file(@)]

\* FloatingPomodoroWidget._on_tick
_on_tick(s) ==
    [s EXCEPT !.study_file = IF s.phase = "Focus" /\ s.is_running
                             THEN load_study_time_file(@) ELSE @]

\* PomodoroManager._notify_phase_change: the observer gets the new values
_notify_phase_change(s) ==
    _on_phase_change([s EXCEPT !.calls = Append(@, Call("on_phase_change", s))])

\* timer.start(1000): (re)arms the timer one second from now
TimerStart(s) == [s EXCEPT !.timer_active = TRUE, !.timer_deadline = now + Res]
\* faulty variant: the timer is left running
TimerStop_Leaves(s) == s

TimerStop(s) == [s EXCEPT !.timer_active = FALSE]

\* elapsed = now - session_start_time; total += elapsed; window cleared
CloseWindow(s) ==
    [s EXCEPT !.total_session_time = @ + (now - s.session_start_time),
              !.session_start_time = None]

\* faulty variant: the part of a second left over stays pending
FlushTotal_KeepsRemainder(s) ==
    [s EXCEPT !.study_file = add_study_time(@, IntSecs(s.total_session_time)),
              !.total_session_time = @ - Res * IntSecs(@)]

\* add_study_time(int(total_session_time)); total_session_time = 0
FlushTotal(s) ==
    [s EXCEPT !.study_file = add_study_time(@, IntSecs(s.total_session_time)),
              !.total_session_time = 0]

FlushIfPositive(s) == IF s.total_session_time > 0 THEN FlushTotal(s) ELSE s

_reset_phase_duration(s) ==
    [s EXCEPT !.remaining =
        IF s.phase = "Focus" THEN s.settings_manager.focus_secs
        ELSE IF s.phase = "Short Break" THEN s.settings_manager.short_break_secs
        ELSE s.settings_manager.long_break_secs]

\* faulty variant: attaching also reloads the duration of the phase
attach_task_Reloads(s, task_id) ==
    _reset_phase_duration([s EXCEPT !.attached_task_id = task_id,
                                    !.attached_deleted = FALSE])

attach_task(s, task_id) ==
    [s EXCEPT !.attached_task_id = task_id, !.attached_deleted = FALSE]

\* faulty variant: saving also stops the engine, as pause() does
save_current_session_Stops(s) ==
    IF s.phase = "Focus" /\ s.session_start_time # None
    THEN [FlushIfPositive(CloseWindow(TimerStop(s))) EXCEPT !.is_running = FALSE]
    ELSE s

\* faulty variant: closing the window counts as a completed Focus phase
save_current_session_CountsFocus(s) ==
    IF s.phase = "Focus" /\ s.session_start_time # None
    THEN [FlushIfPositive(CloseWindow(s)) EXCEPT !.completed_focus_count = @ + 1]
    ELSE s

save_current_session(s) ==
    IF s.phase = "Focus" /\ s.session_start_time # None
    THEN FlushIfPositive(CloseWindow(s))
    ELSE s

OpenWindowIfFocus(s) ==
    IF s.phase = "Focus" /\ s.session_start_time = None
    THEN [s EXCEPT !.session_start_time = now] ELSE s

\* faulty variant: no test of the running flag
start_Unguarded(s) ==
    LET s1 == IF s.remaining <= 0 THEN _reset_phase_duration(s) ELSE s
        s2 == [TimerStart(s1) EXCEPT !.is_running = TRUE]
    IN OpenWindowIfFocus(s2)

\* faulty variant: a countdown that stopped at zero is not reloaded
start_NoReload(s) ==
    IF ~s.is_running
    THEN OpenWindowIfFocus([TimerStart(s) EXCEPT !.is_running = TRUE])
    ELSE s

start(s) ==
    IF ~s.is_running
    THEN LET s1 == IF s.remaining <= 0 THEN _reset_phase_duration(s) ELSE s
             s2 == [TimerStart(s1) EXCEPT !.is_running = TRUE]
         IN OpenWindowIfFocus(s2)
    ELSE s

\* faulty variant: stops the timer and forgets the open accrual window
pause_NoFlush(s) ==
    IF s.is_running
    THEN [TimerStop(s) EXCEPT !.is_running = FALSE]
    ELSE s

pause(s) ==
    IF s.is_running
    THEN LET s1 == [TimerStop(s) EXCEPT !.is_running = FALSE]
         IN IF s1.phase = "Focus" /\ s1.session_start_time # None
            THEN FlushIfPositive(CloseWindow(s1))
            ELSE s1
    ELSE s

\* faulty variant: also detaches the task
reset_Detaches(s) ==
    LET s1 == IF s.phase = "Focus" /\ s.session_start_time # None
              THEN CloseWindow(s) ELSE s
        s2 == FlushIfPositive(s1)
        s3 == pause(s2)
        s4 == [s3 EXCEPT !.phase = "Focus", !.remaining = s.settings_manager.focus_secs,
                         !.attached_task_id = NoTask]
    IN _notify_phase_change(s4)

reset(s) ==
    LET s1 == IF s.phase = "Focus" /\ s.session_start_time # None
              THEN CloseWindow(s) ELSE s
        s2 == FlushIfPositive(s1)
        s3 == pause(s2)
        s4 == [s3 EXCEPT !.phase = "Focus", !.remaining = s.settings_manager.focus_secs]
    IN _notify_phase_change(s4)

\* faulty variant: the open accrual window is dropped, not flushed
switch_phase_NoFlush(s, target) ==
    LET s1 == [s EXCEPT !.session_start_time = None]
        s2 == _reset_phase_duration([s1 EXCEPT !.phase = target])
        s3 == _notify_phase_change(s2)
    IN IF s3.is_running
       THEN LET s4 == TimerStart(s3)
            IN IF s4.phase = "Focus" THEN [s4 EXCEPT !.session_start_time = now] ELSE s4
       ELSE s3

switch_phase(s, target) ==
    LET s1 == IF s.phase = "Focus" /\ s.session_start_time # None
              THEN FlushIfPositive(CloseWindow(s)) ELSE s
        s2 == _reset_phase_duration([s1 EXCEPT !.phase = target])
        s3 == _notify_phase_change(s2)
    IN IF s3.is_running
       THEN LET s4 == TimerStart(s3)
            IN IF s4.phase = "Focus" THEN [s4 EXCEPT !.session_start_time = now] ELSE s4
       ELSE s3

\* faulty variant: tests the count as it was before this Focus phase ended
NextPhase_OffByOne(ph, count) ==
    IF ph = "Focus"
    THEN IF (count - 1) % settings_manager.long_break_every = 0
         THEN "Long Break" ELSE "Short Break"
    ELSE "Focus"

\* the phase that follows the one that ended
NextPhase(ph, count) ==
    IF ph = "Focus"
    THEN IF count % settings_manager.long_break_every = 0 THEN "Long Break" ELSE "Short Break"
    ELSE "Focus"

\* faulty variant: the attached task is not credited
EndFocus_SkipsTask(s) ==
    LET s1 == [s EXCEPT !.completed_focus_count = @ + 1]
    IN IF s1.session_start_time # None THEN FlushTotal(CloseWindow(s1)) ELSE s1

\* the Focus branch of _handle_phase_end (main.py 503-513)
EndFocus(s) ==
    LET s1 == [s EXCEPT !.completed_focus_count = @ + 1]
        s2 == [s1 EXCEPT !.tasks = IF s1.attached_task_id # NoTask
                                   THEN increment_pomodoro(@, s1.attached_task_id)
                                   ELSE @]
    IN IF s2.session_start_time # None THEN FlushTotal(CloseWindow(s2)) ELSE s2

\* faulty variant: the observer is told before the phase is set
EnterNextPhase_NotifiesFirst(s) ==
    LET s1 == _notify_phase_change(s)
        s2 == [s1 EXCEPT !.phase = NextPhase(s.phase, s.completed_focus_count)]
        s3 == _reset_phase_duration(s2)
    IN IF on_complete_cycle
       THEN [s3 EXCEPT !.calls = Append(@, Call("on_complete_cycle", s3))]
       ELSE s3

\* the rest of _handle_phase_end (main.py 515-527): choose the next phase,
\* load its duration, notify
EnterNextPhase(s) ==
    LET s2 == [s EXCEPT !.phase = NextPhase(s.phase, s.completed_focus_count)]
        s3 == _notify_phase_change(_reset_phase_duration(s2))
    IN IF on_complete_cycle
       THEN [s3 EXCEPT !.calls = Append(@, Call("on_complete_cycle", s3))]
       ELSE s3

\* faulty variant: the end of a break is counted like the end of a Focus phase
_handle_phase_end_CountsBreaks(s) == EnterNextPhase(EndFocus(s))

\* play_notification_sound() changes no state of the engine
_handle_phase_end(s) ==
    EnterNextPhase(IF s.phase = "Focus" THEN EndFocus(s) ELSE s)

\* faulty variant: a countdown at zero stays there
_tick_Stalls(s) ==
    IF s.remaining <= 0
    THEN s
    ELSE LET s1 == [s EXCEPT !.remaining = @ - 1]
         IN _on_tick([s1 EXCEPT !.calls = Append(@, Call("on_tick", s1))])

\* faulty variant: the phase ends one tick late, after a decrement below zero
_tick_Late(s) ==
    IF s.remaining < 0
    THEN _handle_phase_end(s)
    ELSE LET s1 == [s EXCEPT !.remaining = @ - 1]
         IN _on_tick([s1 EXCEPT !.calls = Append(@, Call("on_tick", s1))])

_tick(s) ==
    IF s.remaining <= 0
    THEN _handle_phase_end(s)
    ELSE LET s1 == [s EXCEPT !.remaining = @ - 1]
         IN _on_tick([s1 EXCEPT !.calls = Append(@, Call("on_tick", s1))])

\* ------------------------------------------------------------ operations
\* study_time.json as the program finds it when it starts: left by an older
\* version, in minutes (the other forms are inputs of the file operators)
InitialFiles == {JsonFile(Absent, Num(1))}

EmptyTable == [i \in TaskIds |-> NoRow]

\* PomodoroManager.__init__ (main.py 397-411)
Constructed ==
    /\ phase = "Focus"
    /\ remaining = settings_manager.focus_secs
    /\ is_running = FALSE
    /\ completed_focus_count = 0
    /\ attached_task_id = NoTask
    /\ session_start_time = None
    /\ total_session_time = 0
    /\ timer_active = FALSE
    /\ timer_deadline = 0

\* no file function has been called
NoCall == [fn |-> "none", arg |-> 0, ret |-> 0]

History(o) ==
    /\ op' = o
    /\ UNCHANGED <<focus_ends, focus_run_time, study_base, file_io>>

\* The program has started: default settings, no floating timer yet.  The
\* engine fields hold their constructor values until it is built.
Init ==
    /\ settings_manager = DefaultSettings
    /\ floating = FALSE
    /\ Constructed
    /\ on_complete_cycle = FALSE
    /\ now = 0
    /\ study_file \in InitialFiles
    /\ tasks = EmptyTable
    /\ calls = <<>>
    /\ op = "init"
    /\ focus_ends = 0
    /\ focus_run_time = 0
    /\ study_base = 0
    /\ file_io = NoCall
    /\ attached_deleted = FALSE

\* toggle_floating_pomodoro, first call: builds the widget and its engine;
\* the widget's constructor draws the label (_on_phase_change)
ToggleFloating ==
    /\ ~floating
    /\ floating' = TRUE
    /\ on_complete_cycle' = FALSE
    /\ Commit(_on_phase_change([Self EXCEPT !.remaining = settings_manager.focus_secs]))
    /\ op' = "construct"
    /\ study_base' = load_study_time(study_file)
    /\ UNCHANGED <<settings_manager, now, focus_ends, focus_run_time, file_io>>

Engine(s, o) ==
    /\ floating
    /\ Commit(s)
    /\ History(o)
    /\ UNCHANGED <<settings_manager, floating, on_complete_cycle, now>>

\* "start_reload": the start that reloads a countdown stopped at 00:00
Start ==
    Engine(start(Self),
           IF ~is_running /\ remaining <= 0 THEN "start_reload" ELSE "start")

Pause == Engine(pause(Self), "pause")

Reset == Engine(reset(Self), "reset")

SwitchPhase == \E target \in Phases : Engine(switch_phase(Self, target), "switch_phase")

\* FloatingPomodoroWidget._attach_selected_task: a listed task is selected
AttachSelectedTask ==
    \E id \in TaskIds :
        /\ tasks[id].present
        /\ Engine(_on_phase_change(attach_task(Self, id)), "attach_task")

\* closeEvent of the floating timer or of the main window
SaveCurrentSession == Engine(save_current_session(Self), "save_current_session")

\* the QTimer fires: due, and then due again a second later
Tick ==
    /\ floating
    /\ timer_active
    /\ now >= timer_deadline
    /\ Commit(_tick([Self EXCEPT !.timer_deadline = now + Res]))
    /\ op' = IF remaining <= 0 THEN "phase_end" ELSE "tick"
    /\ focus_ends' = IF remaining <= 0 /\ phase = "Focus" THEN focus_ends + 1 ELSE focus_ends
    /\ UNCHANGED <<settings_manager, floating, on_complete_cycle, now,
                   focus_run_time, study_base, file_io>>

\* the wall clock moves on by one unit; a due tick is at most MaxLate late.
\* `measured` keeps the history of the time spent running in Focus.
Clock(measured) ==
    /\ floating
    /\ now < MaxTime
    /\ timer_active => now < timer_deadline + MaxLate
    /\ now' = now + 1
    /\ focus_run_time' = IF measured /\ is_running /\ phase = "Focus"
                         THEN focus_run_time + 1 ELSE focus_run_time
    /\ op' = "advance"
    /\ calls' = <<>>
    /\ UNCHANGED <<settings_manager, floating, phase, remaining, is_running,
                   completed_focus_count, attached_task_id, session_start_time,
                   total_session_time, on_complete_cycle, timer_active,
                   timer_deadline, study_file, tasks, focus_ends, study_base,
                   file_io, attached_deleted>>

Advance == Clock(FALSE)

AdvanceMeasured == Clock(TRUE)

\* TaskTracker.open_settings: the dialog's constructor loads the counter;
\* OK stores the spin box values; then an existing floating timer is reset
\* and redrawn
OpenSettings ==
    \E accepted \in BOOLEAN, focus_m, short_m, long_m \in DialogMinutes, every_n \in DialogEvery :
        LET stored == IF accepted
                      THEN set_from_minutes(focus_m, short_m, long_m, every_n)
                      ELSE settings_manager
            s0 == [Self EXCEPT !.study_file = load_study_time_file(@),
                               !.settings_manager = stored]
        IN /\ settings_manager' = stored
           /\ IF floating
              THEN Commit(_on_phase_change(reset(s0)))
              ELSE Commit(s0)
           /\ History("open_settings")
           /\ UNCHANGED <<floating, on_complete_cycle, now>>

AddTask ==
    /\ NextRowId(tasks) \in TaskIds
    /\ Commit([Self EXCEPT !.tasks = [@ EXCEPT ![NextRowId(tasks)] = NewRow]])
    /\ History("add_task")
    /\ UNCHANGED <<settings_manager, floating, on_complete_cycle, now>>

DeleteTask ==
    \E id \in TaskIds :
        /\ tasks[id].present
        /\ Commit([Self EXCEPT !.tasks = [@ EXCEPT ![id] = NoRow],
                               !.attached_deleted = @ \/ id = attached_task_id])
        /\ History("delete_task")
        /\ UNCHANGED <<settings_manager, floating, on_complete_cycle, now>>

Next ==
    \/ ToggleFloating
    \/ Start
    \/ Pause
    \/ Reset
    \/ SwitchPhase
    \/ AttachSelectedTask
    \/ SaveCurrentSession
    \/ Tick
    \/ Advance
    \/ OpenSettings
    \/ AddTask
    \/ DeleteTask

Spec == Init /\ [][Next]_vars

\* The engine alone, driven by start, pause and reset only: it has just been
\* built (the widget's constructor has drawn the label, migrating the file)
\* under the default settings or under settings the dialog stored before.
InitBasic ==
    /\ settings_manager \in {DefaultSettings} \cup
           {set_from_minutes(f, f, f, n) : f \in DialogMinutes, n \in DialogEvery}
    /\ floating = TRUE
    /\ Constructed
    /\ on_complete_cycle = FALSE
    /\ now = 0
    /\ study_file \in {load_study_time_file(f) : f \in InitialFiles}
    /\ tasks = EmptyTable
    /\ calls = <<>>
    /\ op = "construct"
    /\ focus_ends = 0
    /\ focus_run_time = 0
    /\ study_base = load_study_time(study_file)
    /\ file_io = NoCall
    /\ attached_deleted = FALSE

NextBasic ==
    \/ Start
    \/ Pause
    \/ Reset
    \/ Tick
    \/ AdvanceMeasured

SpecBasic == InitBasic /\ [][NextBasic]_vars

\* The file functions alone, applied to the files a user can leave on disk:
\* a number that is a float, the first numbers that are not, as seconds or
\* as legacy minutes.
LegacyMinutesPastExact == 2 * ((FloatExactMax * 4) \div (2 * LegacyMinuteSecs)) + 3

FileValues == {0 - 2, 0, 1, 5, FloatExactMax, FloatExactMax + 1, LegacyMinutesPastExact}

KeyInputs == {Absent, Bad} \cup {Num(v) : v \in FileValues}

FileInputs == {MissingFile, CorruptFile} \cup {JsonFile(s, m) : s, m \in KeyInputs}

InitFile ==
    /\ settings_manager = DefaultSettings
    /\ floating = FALSE
    /\ Constructed
    /\ on_complete_cycle = FALSE
    /\ now = 0
    /\ study_file \in FileInputs
    /\ tasks = EmptyTable
    /\ calls = <<>>
    /\ op = "init"
    /\ focus_ends = 0
    /\ focus_run_time = 0
    /\ study_base = 0
    /\ file_io = NoCall
    /\ attached_deleted = FALSE

FileCall(fn, arg, ret, f) ==
    /\ file_io' = [fn |-> fn, arg |-> arg, ret |-> ret]
    /\ study_file' = f
    /\ op' = fn
    /\ UNCHANGED <<settings_manager, floating, phase, remaining, is_running,
                   completed_focus_count, attached_task_id, session_start_time,
                   total_session_time, on_complete_cycle, timer_active,
                   timer_deadline, now, tasks, calls, focus_ends, focus_run_time,
                   study_base, attached_deleted>>

SaveStudyTime ==
    \E n \in FileValues : FileCall("save_study_time", n, 0, save_study_time(n))

LoadStudyTime ==
    FileCall("load_study_time", 0, load_study_time(study_file),
             load_study_time_file(study_file))

NextFile ==
    \/ SaveStudyTime
    \/ LoadStudyTime

SpecFile == InitFile /\ [][NextFile]_vars

\* The engine built by a caller that registers all three callbacks of the
\* constructor (the floating timer registers on_tick and on_phase_change
\* only), driven by its own methods and the timer.
InitObserved ==
    /\ settings_manager \in {DefaultSettings} \cup
           {set_from_minutes(f, f, f, n) : f \in DialogMinutes, n \in DialogEvery}
    /\ floating = TRUE
    /\ Constructed
    /\ on_complete_cycle = TRUE
    /\ now = 0
    /\ study_file \in {load_study_time_file(f) : f \in InitialFiles}
    /\ tasks = EmptyTable
    /\ calls = <<>>
    /\ op = "construct"
    /\ focus_ends = 0
    /\ focus_run_time = 0
    /\ study_base = load_study_time(study_file)
    /\ file_io = NoCall
    /\ attached_deleted = FALSE

NextObserved ==
    \/ Start
    \/ Pause
    \/ Reset
    \/ SwitchPhase
    \/ Tick
    \/ Advance

SpecObserved == InitObserved /\ [][NextObserved]_vars

\* The engine left running: it was built (with or without a cycle callback),
\* switched to a phase and started at time 0, and from then on only the timer
\* and the clock act.  A due tick fires (the event loop delivers the
\* timeout) and time passes.
InitRun ==
    /\ settings_manager \in {DefaultSettings} \cup
           {set_from_minutes(f, f, f, n) : f \in DialogMinutes, n \in DialogEvery}
    /\ floating = TRUE
    /\ on_complete_cycle \in BOOLEAN
    /\ now = 0
    /\ phase \in Phases
    /\ remaining = IF phase = "Focus" THEN settings_manager.focus_secs
                   ELSE IF phase = "Short Break" THEN settings_manager.short_break_secs
                   ELSE settings_manager.long_break_secs
    /\ is_running = TRUE
    /\ completed_focus_count = 0
    /\ attached_task_id = NoTask
    /\ session_start_time = IF phase = "Focus" THEN now ELSE None
    /\ total_session_time = 0
    /\ timer_active = TRUE
    /\ timer_deadline = now + Res
    /\ study_file \in {load_study_time_file(f) : f \in InitialFiles}
    /\ tasks = EmptyTable
    /\ calls = <<>>
    /\ op = "start"
    /\ focus_ends = 0
    /\ focus_run_time = 0
    /\ study_base = load_study_time(study_file)
    /\ file_io = NoCall
    /\ attached_deleted = FALSE

NextRun ==
    \/ Tick
    \/ Advance

SpecRun == InitRun /\ [][NextRun]_vars /\ WF_vars(Tick) /\ WF_vars(Advance)

\* format_study_time alone, applied to counter values around its breakpoints.
FormatInputs ==
    (0 .. 61) \cup (119 .. 126) \cup (3590 .. 3610) \cup {5400} \cup (86390 .. 86410)
        \cup (31535990 .. 31536010) \cup {31536000 + 3 * 86400, 2 * 31536000 + 86399}

InitFormat ==
    /\ settings_manager = DefaultSettings
    /\ floating = FALSE
    /\ Constructed
    /\ on_complete_cycle = FALSE
    /\ now = 0
    /\ study_file \in InitialFiles
    /\ tasks = EmptyTable
    /\ calls = <<>>
    /\ op = "init"
    /\ focus_ends = 0
    /\ focus_run_time = 0
    /\ study_base = 0
    /\ file_io \in {[fn |-> "none", arg |-> s, ret |-> ""] : s \in FormatInputs}
    /\ attached_deleted = FALSE

FormatStudyTime ==
    FileCall("format_study_time", file_io.arg, format_study_time(file_io.arg), study_file)

NextFormat == FormatStudyTime

SpecFormat == InitFormat /\ [][NextFormat]_vars

\* SettingsManager alone: set_from_minutes called with any integers, also
\* ones the spin boxes of the dialog would not hand over.
SettingInputs == {0 - 1, 0, 1, 2}

InitSettings ==
    /\ settings_manager = DefaultSettings
    /\ floating = FALSE
    /\ Constructed
    /\ on_complete_cycle = FALSE
    /\ now = 0
    /\ study_file \in InitialFiles
    /\ tasks = EmptyTable
    /\ calls = <<>>
    /\ op = "init"
    /\ focus_ends = 0
    /\ focus_run_time = 0
    /\ study_base = 0
    /\ file_io \in {[fn |-> "none", arg |-> <<f, s, l, n>>, ret |-> 0] :
                        f, s, l, n \in SettingInputs}
    /\ attached_deleted = FALSE

SetFromMinutes ==
    /\ settings_manager' = set_from_minutes(file_io.arg[1], file_io.arg[2],
                                            file_io.arg[3], file_io.arg[4])
    /\ file_io' = [file_io EXCEPT !.fn = "set_from_minutes"]
    /\ op' = "set_from_minutes"
    /\ UNCHANGED <<floating, phase, remaining, is_running, completed_focus_count,
                   attached_task_id, session_start_time, total_session_time,
                   on_complete_cycle, timer_active, timer_deadline, now,
                   study_file, tasks, calls, focus_ends, focus_run_time,
                   study_base, attached_deleted>>

NextSettings == SetFromMinutes

SpecSettings == InitSettings /\ [][NextSettings]_vars

\* ------------------------------------------------- task store (tasks.db)
\* The store by itself: the handlers of the task list (quick add, the task
\* dialog, complete, delete, CSV import) and increment_pomodoro, over full
\* rows.  Timestamps are whole days of the store clock `now`.  The columns
\* started_at and last_pomodoro_at, which no handler reads, are left out.
MaxStoreTime == 2       \* the store clock stops here
MaxPomodoros == 1       \* increment_pomodoro is offered up to this count
OneDay == 1             \* timedelta(days=1)
OneWeek == 7            \* timedelta(weeks=1)
CsvColumns == 13        \* names unpacked from a CSV row

StoreIds == {1, 2}

\* SQLite / CSV values: NULL (Python None), a decimal numeral, an ISO date
\* (its day number), any other text
Null == [k |-> "null"]
Numeral(n) == [k |-> "numeral", v |-> n]
Date(d) == [k |-> "date", v |-> d]
Text(s) == [k |-> "text", v |-> s]

\* Python truth of a cell: None and "" are false
Falsy(c) == c = Null \/ c = Text("")
\* c or d
Or(c, d) == IF Falsy(c) THEN d ELSE c

NoStoreRow ==
    [present |-> FALSE, task |-> Null, category |-> Null, completed |-> 0,
     duedate |-> Null, subtasks |-> Null, completed_at |-> Null,
     priority |-> Null, tags |-> Null, recurring |-> Null, pomodoros |-> 0]
EmptyStore == [i \in StoreIds |-> NoStoreRow]

add_task(t, task, category, duedate, subtasks, priority, tags, recurring) ==
    [t EXCEPT ![NextRowId(t)] =
        [present |-> TRUE, task |-> task, category |-> category, completed |-> 0,
         duedate |-> duedate, subtasks |-> subtasks, completed_at |-> Null,
         priority |-> priority, tags |-> tags, recurring |-> recurring,
         pomodoros |-> 0]]

complete_task_db(t, task_id, at) ==
    IF t[task_id].present
    THEN [t EXCEPT ![task_id].completed = 1, ![task_id].completed_at = Date(at)]
    ELSE t

delete_task_db(t, task_id) == [t EXCEPT ![task_id] = NoStoreRow]

\* datetime.strptime(duedate.split('.')[0], '%Y-%m-%dT%H:%M:%S') raises
\* on anything but an ISO date
Parses(duedate) == duedate.k = "date"

_handle_recurring_DailyIsWeekly(t, task_row, at) ==
    IF Falsy(task_row.recurring) \/ task_row.recurring = Text("None") THEN t
    ELSE LET raised == ~Falsy(task_row.duedate) /\ ~Parses(task_row.duedate)
             base == IF ~Falsy(task_row.duedate) THEN task_row.duedate.v ELSE at
             next_due ==
                 IF raised THEN Null
                 ELSE IF task_row.recurring = Text("Daily") THEN Date(base + OneWeek)
                 ELSE IF task_row.recurring = Text("Weekly") THEN Date(base + OneWeek)
                 ELSE Null
         IN add_task(t, task_row.task, task_row.category, next_due,
                     task_row.subtasks, task_row.priority, task_row.tags,
                     task_row.recurring)

_handle_recurring(t, task_row, at) ==
    IF Falsy(task_row.recurring) \/ task_row.recurring = Text("None") THEN t
    ELSE LET raised == ~Falsy(task_row.duedate) /\ ~Parses(task_row.duedate)
             base == IF ~Falsy(task_row.duedate) THEN task_row.duedate.v ELSE at
             next_due ==
                 IF raised THEN Null
                 ELSE IF task_row.recurring = Text("Daily") THEN Date(base + OneDay)
                 ELSE IF task_row.recurring = Text("Weekly") THEN Date(base + OneWeek)
                 ELSE Null
         IN add_task(t, task_row.task, task_row.category, next_due,
                     task_row.subtasks, task_row.priority, task_row.tags,
                     task_row.recurring)

\* MainWindow.complete_task on the selected row
complete_task(t, task_id, at) ==
    _handle_recurring(complete_task_db(t, task_id, at), t[task_id], at)

\* whether completing the row adds a task
Recurs(row) == ~Falsy(row.recurring) /\ row.recurring # Text("None")

\* -- CSV import
\* row + [None] * (13 - len(row))
Pad(row) == row \o [i \in 1..(CsvColumns - Len(row)) |-> Null]

\* int(cell or 0) raises on text that is no numeral
IntRaises(c) == ~Falsy(c) /\ c.k # "numeral"
IntOr0(c) == IF Falsy(c) THEN 0 ELSE c.v

\* the id cell as SQLite takes it for INTEGER PRIMARY KEY: a numeral is the
\* rowid, NULL asks for the next rowid, other text is a datatype mismatch
IdRaises(c) == c # Null /\ c.k # "numeral"
RowId(t, c) == IF c = Null THEN NextRowId(t) ELSE c.v

\* the row INSERT OR REPLACE stores for the 13 unpacked cells
Values(row) ==
    [present |-> TRUE, task |-> row[2], category |-> row[3],
     completed |-> IntOr0(row[4]), duedate |-> Or(row[5], Null),
     subtasks |-> Or(row[6], Text("")), completed_at |-> Or(row[8], Null),
     priority |-> Or(row[9], Text("Medium")), tags |-> Or(row[10], Text("")),
     recurring |-> Or(row[11], Text("None")), pomodoros |-> IntOr0(row[12])]

\* the try block of the loop body: a raise leaves the table as it was
InsertOrReplace(t, row) ==
    IF IntRaises(row[4]) \/ IntRaises(row[12]) \/ IdRaises(row[1]) THEN t
    ELSE [t EXCEPT ![RowId(t, row[1])] = Values(row)]

\* the loop over the data rows: unpacking a row of more than 13 cells raises
\* outside the inner try, so the loop and the function end before commit
RECURSIVE ImportRows(_, _)
ImportRows(t, rows) ==
    IF rows = <<>> THEN [committed |-> TRUE, t |-> t]
    ELSE IF Len(Head(rows)) > CsvColumns THEN [committed |-> FALSE, t |-> t]
    ELSE ImportRows(InsertOrReplace(t, Pad(Head(rows))), Tail(rows))

import_tasks(t, rows) ==
    LET r == ImportRows(t, rows) IN IF r.committed THEN r.t ELSE t

\* every rowid the import uses is one the model has
RECURSIVE Fits(_, _)
Fits(t, rows) ==
    IF rows = <<>> THEN TRUE
    ELSE IF Len(Head(rows)) > CsvColumns THEN TRUE
    ELSE LET row == Pad(Head(rows))
         IN IF IntRaises(row[4]) \/ IntRaises(row[12]) \/ IdRaises(row[1])
            THEN Fits(t, Tail(rows))
            ELSE RowId(t, row[1]) \in DOMAIN t
                 /\ Fits(InsertOrReplace(t, row), Tail(rows))

\* -- inputs
\* what quick add and the task dialog hand to add_task: the dialog always
\* gives an ISO date, quick add none
DialogDue == Date(1)
QuickAdd ==
    [task |-> Text("q"), category |-> Text("Study"), duedate |-> Null,
     subtasks |-> Text(""), priority |-> Text("Medium"), tags |-> Text(""),
     recurring |-> Text("None")]
Dialog(rec) ==
    [task |-> Text("d"), category |-> Text("Homework"), duedate |-> DialogDue,
     subtasks |-> Text("s"), priority |-> Text("High"), tags |-> Text("t"),
     recurring |-> Text(rec)]
TaskInputs == {QuickAdd} \cup {Dialog(rec) : rec \in {"Daily", "Weekly"}}

\* data rows of a CSV file (cells are text; an exported NULL is "")
CsvRow(id, task, completed, duedate, recurring, pomodoros) ==
    <<id, Text(task), Text("Study"), completed, duedate, Text(""), Text(""),
      Text(""), Text("Low"), Text(""), Text(recurring), pomodoros, Text("")>>
ReplacesFirst == CsvRow(Numeral(1), "r", Numeral(1), Text("someday"), "Daily", Numeral(0))
WeeklyNoDue == CsvRow(Numeral(1), "w", Numeral(0), Text(""), "Weekly", Numeral(1))
BadCompleted == CsvRow(Numeral(1), "c", Text("yes"), Text(""), "None", Numeral(0))
BadPomodoros == CsvRow(Numeral(2), "p", Numeral(0), Text(""), "None", Text("many"))
TooLong == CsvRow(Numeral(2), "l", Numeral(0), Text(""), "None", Numeral(0)) \o <<Text("x")>>
EmptyRow == <<>>
ShortRow == <<Numeral(2), Text("s")>>
WellFormedRows == {ReplacesFirst, WeeklyNoDue, ShortRow}
MalformedRows == {BadCompleted, BadPomodoros, TooLong, EmptyRow}
\* files: one row of any kind, or a malformed row between two well-formed
\* rows, or after one
CsvFiles ==
    {<<a>> : a \in WellFormedRows \cup MalformedRows}
    \cup {<<ReplacesFirst, b>> : b \in MalformedRows}
    \cup {<<ReplacesFirst, b, ShortRow>> : b \in MalformedRows}

InitTasks ==
    /\ settings_manager = DefaultSettings
    /\ floating = FALSE
    /\ Constructed
    /\ on_complete_cycle = FALSE
    /\ now = 0
    /\ study_file = MissingFile
    /\ tasks = EmptyStore
    /\ calls = <<>>
    /\ op = "init"
    /\ focus_ends = 0
    /\ focus_run_time = 0
    /\ study_base = 0
    /\ file_io = [fn |-> "none", arg |-> 0, ret |-> 0]
    /\ attached_deleted = FALSE

\* a store handler: file_io records the call (arg: the selected id, the
\* added task or the CSV rows)
StoreCall(fn, arg, t) ==
    /\ tasks' = t
    /\ file_io' = [fn |-> fn, arg |-> arg, ret |-> 0]
    /\ op' = fn
    /\ UNCHANGED <<settings_manager, floating, phase, remaining, is_running,
                   completed_focus_count, attached_task_id, session_start_time,
                   total_session_time, on_complete_cycle, timer_active,
                   timer_deadline, now, study_file, calls, focus_ends,
                   focus_run_time, study_base, attached_deleted>>

StoreAddTask ==
    \E d \in TaskInputs :
        /\ NextRowId(tasks) \in StoreIds
        /\ StoreCall("add_task", d,
                     add_task(tasks, d.task, d.category, d.duedate, d.subtasks,
                              d.priority, d.tags, d.recurring))

CompleteTask ==
    \E id \in StoreIds :
        /\ tasks[id].present
        /\ Recurs(tasks[id]) => NextRowId(tasks) \in StoreIds
        /\ StoreCall("complete_task", id, complete_task(tasks, id, now))

StoreDeleteTask ==
    \E id \in StoreIds :
        /\ tasks[id].present
        /\ StoreCall("delete_task", id, delete_task_db(tasks, id))

IncrementPomodoro ==
    \E id \in StoreIds :
        /\ tasks[id].present
        /\ tasks[id].pomodoros < MaxPomodoros
        /\ StoreCall("increment_pomodoro", id, increment_pomodoro(tasks, id))

ImportTasks ==
    \E rows \in CsvFiles :
        /\ Fits(tasks, rows)
        /\ StoreCall("import_tasks", rows, import_tasks(tasks, rows))

StoreClock ==
    /\ now < MaxStoreTime
    /\ now' = now + 1
    /\ op' = "advance"
    /\ UNCHANGED <<settings_manager, floating, phase, remaining, is_running,
                   completed_focus_count, attached_task_id, session_start_time,
                   total_session_time, on_complete_cycle, timer_active,
                   timer_deadline, study_file, tasks, calls, focus_ends,
                   focus_run_time, study_base, file_io, attached_deleted>>

NextTasks ==
    \/ StoreAddTask
    \/ CompleteTask
    \/ StoreDeleteTask
    \/ IncrementPomodoro
    \/ ImportTasks
    \/ StoreClock

SpecTasks == InitTasks /\ [][NextTasks]_vars

\* The running engine with its ticks counted: as SpecRun, under settings
\* with different durations, and file_io keeps the number of ticks the
\* phase has received since its duration was loaded (ret: the ordinal of the
\* tick just delivered within the phase it found).
InitTicks ==
    /\ settings_manager \in
           {set_from_minutes(f, s, l, n) : f, s, l \in {1, 2}, n \in DialogEvery}
    /\ floating = TRUE
    /\ on_complete_cycle = FALSE
    /\ now = 0
    /\ phase \in Phases
    /\ remaining = IF phase = "Focus" THEN settings_manager.focus_secs
                   ELSE IF phase = "Short Break" THEN settings_manager.short_break_secs
                   ELSE settings_manager.long_break_secs
    /\ is_running = TRUE
    /\ completed_focus_count = 0
    /\ attached_task_id = NoTask
    /\ session_start_time = IF phase = "Focus" THEN now ELSE None
    /\ total_session_time = 0
    /\ timer_active = TRUE
    /\ timer_deadline = now + Res
    /\ study_file \in {load_study_time_file(f) : f \in InitialFiles}
    /\ tasks = EmptyTable
    /\ calls = <<>>
    /\ op = "start"
    /\ focus_ends = 0
    /\ focus_run_time = 0
    /\ study_base = load_study_time(study_file)
    /\ file_io = [fn |-> "none", arg |-> 0, ret |-> 0]
    /\ attached_deleted = FALSE

CountedTick ==
    /\ timer_active
    /\ now >= timer_deadline
    /\ Commit(_tick([Self EXCEPT !.timer_deadline = now + Res]))
    /\ op' = IF remaining <= 0 THEN "phase_end" ELSE "tick"
    /\ focus_ends' = IF remaining <= 0 /\ phase = "Focus" THEN focus_ends + 1 ELSE focus_ends
    /\ file_io' = [fn |-> "_tick",
                   arg |-> IF remaining <= 0 THEN 0 ELSE file_io.arg + 1,
                   ret |-> file_io.arg + 1]
    /\ UNCHANGED <<settings_manager, floating, on_complete_cycle, now,
                   focus_run_time, study_base>>

NextTicks ==
    \/ CountedTick
    \/ Advance

SpecTicks == InitTicks /\ [][NextTicks]_vars

\* ------------------------------------------------------------ properties
StudyTime == load_study_time(study_file)
IsBreak(ph) == ph \in {"Short Break", "Long Break"}
WindowOpen == session_start_time # None
\* the pending amount once the open window is closed now
Pending == total_session_time + (now - session_start_time)
Duration(ph) ==
    CASE ph = "Focus" -> settings_manager.focus_secs
      [] ph = "Short Break" -> settings_manager.short_break_secs
      [] ph = "Long Break" -> settings_manager.long_break_secs

\* C1: under start, pause, reset and ticks, once the engine is stopped (all
\* accrued time has been flushed) the increase of the persisted counter is
\* within one second of the time spent running in Focus.
C1_AccrualWithinOneSecond ==
    LET credited == (StudyTime - study_base) * Res
    IN ~is_running =>
          /\ credited - focus_run_time <= Res
          /\ focus_run_time - credited <= Res

\* C2: the k-th Focus phase that ends by countdown is followed by Long Break
\* exactly when k mod long_break_every = 0, and by Short Break otherwise.
C2_LongBreakEveryNth ==
    [][focus_ends' = focus_ends + 1 =>
         phase' = IF focus_ends' % settings_manager.long_break_every = 0
                  THEN "Long Break" ELSE "Short Break"]_vars

\* the second Focus end under "long break every 2" has led to Long Break
C2_Witness ==
    /\ op = "phase_end"
    /\ focus_ends = 2
    /\ settings_manager.long_break_every = 2
    /\ phase = "Long Break"

\* C3: a break that ends by countdown is followed by Focus with the full
\* focus duration, and completed_focus_count is unchanged.
C3_BreakEndsInFocus ==
    [][op' = "phase_end" /\ IsBreak(phase) =>
         /\ phase' = "Focus"
         /\ remaining' = settings_manager.focus_secs
         /\ completed_focus_count' = completed_focus_count]_vars

\* a break has just ended by countdown
C3_Witness ==
    /\ op = "phase_end"
    /\ phase = "Focus"
    /\ completed_focus_count >= 1

\* C4: whenever the engine runs in Focus an accrual window is open.
C4_RunningFocusHasWindow ==
    floating /\ is_running /\ phase = "Focus" => WindowOpen

\* C5: while the phase is a break no step changes the persisted counter.
C5_BreakDoesNotAccrue ==
    [][IsBreak(phase) => StudyTime' = StudyTime]_vars

\* the engine was paused in a break that had been counting down
C5_Witness ==
    /\ op = "pause"
    /\ phase = "Short Break"
    /\ remaining < settings_manager.short_break_secs
    /\ ~is_running

\* the unit the stored counter is held in
Repr(f) ==
    IF f.st # "ok" THEN "none"
    ELSE IF f.total_seconds.k # "absent" THEN "seconds"
    ELSE IF f.total_minutes.k # "absent" THEN "minutes"
    ELSE "none"

C7_FocusEndEffects ==
    [][op' = "phase_end" =>
         IF phase = "Focus"
         THEN /\ completed_focus_count' = completed_focus_count + 1
              /\ \A id \in TaskIds :
                    /\ tasks'[id].present = tasks[id].present
                    /\ tasks'[id].pomodoros = tasks[id].pomodoros +
                           (IF id = attached_task_id /\ tasks[id].present THEN 1 ELSE 0)
              /\ IF WindowOpen
                 THEN /\ StudyTime' = StudyTime + IntSecs(Pending)
                      /\ session_start_time' = None
                      /\ total_session_time' = 0
                 ELSE /\ StudyTime' = StudyTime
                      /\ session_start_time' = None
         ELSE /\ completed_focus_count' = completed_focus_count
              /\ tasks' = tasks
              /\ StudyTime' = StudyTime]_vars

\* a Focus countdown has ended with a task attached and a window open
C7_Witness ==
    /\ op = "phase_end"
    /\ IsBreak(phase)
    /\ completed_focus_count = 1
    /\ attached_task_id \in TaskIds
    /\ tasks[attached_task_id].present
    /\ tasks[attached_task_id].pomodoros = 1
    /\ StudyTime > study_base

\* C8: a tick with remaining <= 0 ends the phase without decrementing; any
\* other tick decrements remaining by 1, leaves phase, running flag, count
\* and attached task alone, and hands the new value to on_tick.
C8_TickDecrementsOrEndsPhase ==
    [][op' \in {"tick", "phase_end"} =>
         IF remaining <= 0
         THEN /\ phase' # phase
              /\ remaining' = Duration(phase')
              /\ Len(calls') >= 1
              /\ calls'[1] = [cb |-> "on_phase_change", phase |-> phase',
                              remaining |-> remaining']
         ELSE /\ remaining' = remaining - 1
              /\ phase' = phase
              /\ is_running' = is_running
              /\ completed_focus_count' = completed_focus_count
              /\ attached_task_id' = attached_task_id
              /\ calls' = <<[cb |-> "on_tick", phase |-> phase,
                             remaining |-> remaining - 1]>>]_vars

\* a tick has brought the countdown down to zero
C8_Witness ==
    /\ op = "tick"
    /\ remaining = 0
    /\ is_running
    /\ Len(calls) = 1

\* C9: pause() on a running engine stops the tick; an open Focus window is
\* closed, the pending amount (if positive) goes to the counter in whole
\* seconds and is zeroed; phase, remaining, count, attached task stay.
C9_PauseFlushes ==
    [][op' = "pause" /\ is_running =>
         /\ ~is_running'
         /\ ~timer_active'
         /\ phase' = phase
         /\ remaining' = remaining
         /\ completed_focus_count' = completed_focus_count
         /\ attached_task_id' = attached_task_id
         /\ IF phase = "Focus" /\ WindowOpen
            THEN /\ session_start_time' = None
                 /\ StudyTime' = StudyTime + (IF Pending > 0 THEN IntSecs(Pending) ELSE 0)
                 /\ total_session_time' = (IF Pending > 0 THEN 0 ELSE Pending)
            ELSE /\ session_start_time' = session_start_time
                 /\ total_session_time' = total_session_time
                 /\ StudyTime' = StudyTime]_vars

\* a running Focus phase was paused and whole seconds reached the counter
C9_Witness ==
    /\ op = "pause"
    /\ phase = "Focus"
    /\ ~is_running
    /\ session_start_time = None
    /\ StudyTime > study_base

\* C10: after reset() the engine is stopped in Focus with the full focus
\* duration, no window, nothing pending (an open window was flushed first),
\* the observer was told of the phase, and the attached task is kept.
C10_ResetPostcondition ==
    [][op' = "reset" =>
         /\ phase' = "Focus"
         /\ remaining' = settings_manager.focus_secs
         /\ ~is_running'
         /\ ~timer_active'
         /\ session_start_time' = None
         /\ total_session_time' = 0
         /\ StudyTime' = StudyTime +
                (IF phase = "Focus" /\ WindowOpen THEN IntSecs(Pending) ELSE 0)
         /\ calls' = <<[cb |-> "on_phase_change", phase |-> "Focus",
                        remaining |-> settings_manager.focus_secs]>>
         /\ attached_task_id' = attached_task_id]_vars

\* reset() was called on an engine running in Focus with a task attached,
\* and the elapsed seconds reached the counter
C10_Witness ==
    /\ op = "reset"
    /\ attached_task_id # NoTask
    /\ StudyTime > study_base
    /\ completed_focus_count = 0

C12_StartPauseIdempotent ==
    [][(op' = "start" /\ is_running) \/ (op' = "pause" /\ ~is_running) =>
         /\ UNCHANGED <<phase, remaining, is_running, session_start_time,
                        total_session_time, completed_focus_count, focus_ends,
                        attached_task_id, timer_active, timer_deadline,
                        study_file, tasks>>
         /\ calls' = <<>>]_vars

\* start() was called on an engine that had been running in Focus for a
\* while: the window and the timer are as they were
C12_Witness ==
    /\ op = "start"
    /\ is_running
    /\ phase = "Focus"
    /\ WindowOpen
    /\ session_start_time < now
    /\ timer_deadline < now + Res

\* C13: start() on a stopped engine reloads remaining to the duration of the
\* current phase if it is <= 0 and leaves it otherwise; phase, count, task
\* table and counter stay; the engine runs, the timer is armed, and in Focus
\* with no window open a window is opened now.
C13_StartReloadsAtZero ==
    [][op' \in {"start", "start_reload"} /\ ~is_running =>
         /\ remaining' = IF remaining <= 0 THEN Duration(phase) ELSE remaining
         /\ phase' = phase
         /\ completed_focus_count' = completed_focus_count
         /\ tasks' = tasks
         /\ StudyTime' = StudyTime
         /\ total_session_time' = total_session_time
         /\ is_running'
         /\ timer_active'
         /\ timer_deadline' = now + Res
         /\ session_start_time' = IF phase = "Focus" /\ ~WindowOpen
                                  THEN now ELSE session_start_time]_vars

\* the first Focus countdown ran down to 00:00, the engine was paused before
\* the phase-end tick and started again: the full duration is back
C13_Witness ==
    /\ op = "start_reload"
    /\ is_running
    /\ phase = "Focus"
    /\ completed_focus_count = 0
    /\ remaining = Duration("Focus")
    /\ session_start_time = now
    /\ now >= Res * Duration("Focus")
    /\ StudyTime >= study_base + Duration("Focus")

\* C14: attaching a task changes attached_task_id only; start, pause, reset,
\* switch_phase, a tick and a phase end leave attached_task_id alone.
C14_AttachTaskFrame ==
    [][/\ op' = "attach_task" =>
            /\ attached_task_id' \in TaskIds
            /\ UNCHANGED <<phase, remaining, is_running, session_start_time,
                           total_session_time, completed_focus_count,
                           timer_active, timer_deadline, tasks>>
            /\ StudyTime' = StudyTime
       /\ op' \in {"start", "start_reload", "pause", "reset", "switch_phase", "tick",
                   "phase_end"} =>
            attached_task_id' = attached_task_id]_vars

\* a task was attached while a Focus countdown was under way
C14_Witness ==
    /\ op = "attach_task"
    /\ attached_task_id \in TaskIds
    /\ is_running
    /\ phase = "Focus"
    /\ WindowOpen
    /\ remaining < Duration("Focus")

\* C15: while the engine is not running no tick fires, and only reset,
\* switch_phase, the settings dialog or start change phase or remaining (the
\* passage of time does not); start() with remaining > 0 continues from the
\* remaining value held.
C15_PausedNeverCatchesUp ==
    [][/\ ~is_running => op' \notin {"tick", "phase_end"}
       /\ ~is_running /\ op' \notin {"construct", "start", "start_reload", "reset",
                                       "switch_phase", "open_settings"} =>
            /\ phase' = phase
            /\ remaining' = remaining
            /\ ~is_running'
       /\ op' = "start" /\ ~is_running /\ remaining > 0 =>
            /\ phase' = phase
            /\ remaining' = remaining]_vars

\* the first Focus countdown was paused part-way, more time passed than
\* seconds were counted, and start() resumed it
C15_Witness ==
    /\ op = "start"
    /\ is_running
    /\ phase = "Focus"
    /\ completed_focus_count = 0
    /\ remaining > 0
    /\ remaining < Duration("Focus")
    /\ session_start_time = now
    /\ timer_deadline = now + Res
    /\ now > Res * (Duration("Focus") - remaining)

\* C16: left running with fair ticks, every phase whose countdown fits in the
\* time the clock still covers ends, and every change of phase goes from
\* Focus to a break or from a break to Focus.
C16_EveryPhaseEnds ==
    /\ \A p \in Phases :
          (is_running /\ phase = p
              /\ timer_deadline + (Res + MaxLate) * remaining <= MaxTime)
          ~> (phase # p)
    /\ [][phase' # phase => (phase = "Focus") # (phase' = "Focus")]_vars

\* Focus, break, Focus, break: the second Focus countdown has ended
C16_Witness ==
    /\ op = "phase_end"
    /\ is_running
    /\ focus_ends = 2
    /\ IsBreak(phase)

\* C17: every callback a handler makes carries the phase and remaining the
\* engine holds when the handler is done: a tick calls on_tick with the
\* decremented value, reset and switch_phase call on_phase_change with the
\* phase and duration set, and a phase end calls on_phase_change and then
\* on_complete_cycle, both with the phase entered.
C17_ObserversSeeNewState ==
    [][/\ \A i \in 1..Len(calls') :
             /\ calls'[i].phase = phase'
             /\ calls'[i].remaining = remaining'
       /\ op' = "tick" =>
             /\ Len(calls') = 1
             /\ calls'[1].cb = "on_tick"
             /\ remaining' = remaining - 1
       /\ op' \in {"reset", "switch_phase"} =>
             /\ Len(calls') = 1
             /\ calls'[1].cb = "on_phase_change"
             /\ remaining' = Duration(phase')
       /\ op' = "phase_end" =>
             /\ Len(calls') = 2
             /\ calls'[1].cb = "on_phase_change"
             /\ calls'[2].cb = "on_complete_cycle"
             /\ phase' # phase
             /\ remaining' = Duration(phase')]_vars

\* a Focus countdown has ended and both callbacks were made with the break
C17_Witness ==
    /\ op = "phase_end"
    /\ IsBreak(phase)
    /\ Len(calls) = 2
    /\ calls[1] = [cb |-> "on_phase_change", phase |-> phase, remaining |-> remaining]
    /\ calls[2] = [cb |-> "on_complete_cycle", phase |-> phase, remaining |-> remaining]

\* C18: a Focus countdown that ends while no task is attached, or after the
\* attached task was deleted, changes no row of the task table and completes
\* the transition: count + 1, break chosen, its duration loaded, observer
\* notified.
C18_MissingTaskTolerated ==
    [][/\ op' = "phase_end"
       /\ phase = "Focus"
       /\ attached_task_id = NoTask \/ attached_deleted
       => /\ tasks' = tasks
          /\ completed_focus_count' = completed_focus_count + 1
          /\ phase' = NextPhase("Focus", completed_focus_count + 1)
          /\ remaining' = Duration(phase')
          /\ Len(calls') >= 1
          /\ calls'[1] = [cb |-> "on_phase_change", phase |-> phase',
                          remaining |-> remaining']]_vars

\* C19: for every n >= 0, a load_study_time() that follows save_study_time(n)
\* returns n.
C19_SaveLoadRoundTrip ==
    [][/\ file_io.fn = "save_study_time"
       /\ file_io.arg >= 0
       /\ file_io'.fn = "load_study_time"
       => file_io'.ret = file_io.arg]_vars

\* C20: loading a file with only a minutes value m >= 0 returns 60*m and leaves
\* the file with only the seconds value 60*m; a load that follows a load
\* returns the same value; with both keys present the seconds value is
\* returned and the file is left as it was.
C20_LegacyMigratesOnce ==
    [][file_io'.fn = "load_study_time" =>
         /\ study_file.st = "ok" /\ study_file.total_seconds.k = "absent"
                /\ study_file.total_minutes.k = "num" /\ study_file.total_minutes.v >= 0
            => /\ file_io'.ret = LegacyMinuteSecs * study_file.total_minutes.v
               /\ study_file' = JsonFile(Num(LegacyMinuteSecs * study_file.total_minutes.v), Absent)
         /\ file_io.fn = "load_study_time" => file_io'.ret = file_io.ret
         /\ study_file.st = "ok" /\ study_file.total_seconds.k = "num"
                /\ study_file.total_seconds.v >= 0
                /\ study_file.total_minutes.k # "absent"
            => /\ file_io'.ret = study_file.total_seconds.v
               /\ study_file' = study_file]_vars

\* C21: load_study_time() returns 0 when the file is missing or unreadable or
\* the key it reads holds a non-numeric value, and never a negative number;
\* save_study_time writes a number >= 0, and 0 for a negative argument, which
\* a following load returns as 0.
C21_LoadDefaultsToZero ==
    [][/\ file_io'.fn = "load_study_time" =>
            /\ file_io'.ret >= 0
            /\ study_file.st # "ok" => file_io'.ret = 0
            /\ study_file.st = "ok" /\ study_file.total_seconds.k = "bad" => file_io'.ret = 0
            /\ study_file.st = "ok" /\ study_file.total_seconds.k = "absent"
                   /\ study_file.total_minutes.k \in {"absent", "bad"} => file_io'.ret = 0
            /\ study_file' # study_file =>
                   study_file'.total_seconds.k = "num" /\ study_file'.total_seconds.v >= 0
            /\ file_io.fn = "save_study_time" /\ file_io.arg < 0 => file_io'.ret = 0
       /\ file_io'.fn = "save_study_time" =>
            /\ study_file'.st = "ok"
            /\ study_file'.total_seconds.k = "num"
            /\ study_file'.total_seconds.v >= 0
            /\ file_io'.arg < 0 => study_file'.total_seconds.v = 0]_vars

\* a file that is not valid JSON was loaded as 0
C21_Witness ==
    /\ file_io.fn = "load_study_time"
    /\ file_io.ret = 0
    /\ study_file.st = "corrupt"

\* the text the breakpoints of the claim give for s
C22_Text(s) ==
    CASE s < 60 -> ToString(s) \o " seconds"
      [] s >= 60 /\ s < 3600 -> ToString(s \div 60) \o "m " \o ToString(s % 60) \o "s"
      [] s >= 3600 /\ s < 86400 ->
             ToString(s \div 3600) \o "h " \o ToString((s % 3600) \div 60) \o "m"
      [] s >= 86400 /\ s < 365 * 86400 ->
             ToString(s \div 86400) \o "d " \o ToString((s % 86400) \div 3600) \o "h"
      [] s >= 365 * 86400 ->
             ToString(s \div (365 * 86400)) \o "y "
                 \o ToString((s % (365 * 86400)) \div 86400) \o "d"

\* C22: format_study_time(s) for s >= 0 is the text of the fixed breakpoints
\* (seconds; m s; h m; d h; y d with a 365-day year), as in 45 -> "45
\* seconds", 125 -> "2m 5s", 5400 -> "1h 30m" and at each breakpoint.
C22_FormatBreakpoints ==
    file_io.fn = "format_study_time" =>
        /\ file_io.ret = C22_Text(file_io.arg)
        /\ file_io.arg = 45 => file_io.ret = "45 seconds"
        /\ file_io.arg = 125 => file_io.ret = "2m 5s"
        /\ file_io.arg = 5400 => file_io.ret = "1h 30m"
        /\ file_io.arg = 59 => file_io.ret = "59 seconds"
        /\ file_io.arg = 60 => file_io.ret = "1m 0s"
        /\ file_io.arg = 3599 => file_io.ret = "59m 59s"
        /\ file_io.arg = 3600 => file_io.ret = "1h 0m"
        /\ file_io.arg = 86399 => file_io.ret = "23h 59m"
        /\ file_io.arg = 86400 => file_io.ret = "1d 0h"
        /\ file_io.arg = 31535999 => file_io.ret = "364d 23h"
        /\ file_io.arg = 31536000 => file_io.ret = "1y 0d"

\* the last value shown in days was formatted
C22_Witness ==
    /\ file_io.fn = "format_study_time"
    /\ file_io.arg = 31535999
    /\ file_io.ret = "364d 23h"

\* C30: after set_from_minutes with any integers (0 and negative ones too)
\* every duration is at least one minute and long_break_every is at least 1,
\* so the divisor of the modulo at a Focus end is never 0.
C30_SettingsAtLeastOne ==
    /\ settings_manager.focus_secs >= SecsPerMin
    /\ settings_manager.short_break_secs >= SecsPerMin
    /\ settings_manager.long_break_secs >= SecsPerMin
    /\ settings_manager.long_break_every >= 1
    /\ file_io.fn = "set_from_minutes" =>
          /\ settings_manager.focus_secs = Max(1, file_io.arg[1]) * SecsPerMin
          /\ settings_manager.long_break_every = Max(1, file_io.arg[4])

\* set_from_minutes(0, -1, 0, 0) left one minute each and "every 1"
C30_Witness ==
    /\ file_io.fn = "set_from_minutes"
    /\ file_io.arg = <<0, 0 - 1, 0, 0>>
    /\ settings_manager = [focus_secs |-> SecsPerMin, short_break_secs |-> SecsPerMin,
                            long_break_secs |-> SecsPerMin, long_break_every |-> 1]

\* C29: whenever a Long Break is entered (by countdown or by switch_phase)
\* completed_focus_count is 0 afterwards.
C29_CountResetsAtLongBreak ==
    [][op' \in {"phase_end", "switch_phase"} /\ phase' = "Long Break" =>
         completed_focus_count' = 0]_vars

\* C23: completing a task that was completed before (completed = 1 with a
\* completion time) leaves its completed_at as it was.
C23_CompletedAtSetOnce ==
    [][op' = "complete_task" /\ tasks[file_io'.arg].completed = 1
          /\ tasks[file_io'.arg].completed_at # Null
       => tasks'[file_io'.arg].completed_at = tasks[file_io'.arg].completed_at]_vars

\* C24: no store operation lowers the pomodoros of a task that exists before
\* and after it.
C24_PomodorosNeverDecrease ==
    [][\A id \in DOMAIN tasks :
          tasks[id].present /\ tasks'[id].present
          => tasks'[id].pomodoros >= tasks[id].pomodoros]_vars

\* C25: completing a Daily (Weekly) task whose due date is an ISO date or
\* missing adds exactly one task, due 1 day (7 days) after the original due
\* date, or after now when there is none, with the same title, category,
\* subtasks, priority, tags and recurrence, not completed and with no
\* pomodoros; the original is completed and keeps its due date.
C25_RecurringSuccessor ==
    [][op' = "complete_task"
       => LET id == file_io'.arg
              row == tasks[id]
              new == NextRowId(tasks)
              base == IF row.duedate = Null THEN now ELSE row.duedate.v
          IN row.recurring \in {Text("Daily"), Text("Weekly")}
                /\ (row.duedate = Null \/ row.duedate.k = "date")
             => /\ ~tasks[new].present
                /\ \A j \in StoreIds \ {id, new} : tasks'[j] = tasks[j]
                /\ tasks'[new] =
                     [present |-> TRUE, task |-> row.task, category |-> row.category,
                      completed |-> 0,
                      duedate |-> Date(base + (IF row.recurring = Text("Daily")
                                               THEN 1 ELSE 7)),
                      subtasks |-> row.subtasks, completed_at |-> Null,
                      priority |-> row.priority, tags |-> row.tags,
                      recurring |-> row.recurring, pomodoros |-> 0]
                /\ tasks'[id].present
                /\ tasks'[id].completed = 1
                /\ tasks'[id].duedate = row.duedate]_vars

C25_Witness ==
    /\ op = "complete_task"
    /\ tasks[file_io.arg].completed = 1
    /\ tasks[file_io.arg].recurring = Text("Daily")
    /\ tasks[file_io.arg].duedate = DialogDue
    /\ \E j \in StoreIds \ {file_io.arg} :
          /\ tasks[j].present
          /\ tasks[j].completed = 0
          /\ tasks[j].task = tasks[file_io.arg].task
          /\ tasks[j].duedate = Date(DialogDue.v + 1)

\* C26: completing a recurring task whose stored due date does not parse
\* completes it and adds no task.
C26_NoSuccessorWithoutNextDue ==
    [][op' = "complete_task" /\ Recurs(tasks[file_io'.arg])
          /\ ~Falsy(tasks[file_io'.arg].duedate)
          /\ ~Parses(tasks[file_io'.arg].duedate)
       => /\ tasks'[file_io'.arg].completed = 1
          /\ \A j \in StoreIds \ {file_io'.arg} : tasks'[j] = tasks[j]]_vars

\* a data row the import can take: 1 to 13 cells, completed and pomodoros
\* empty or numerals
WellFormed(row) ==
    /\ Len(row) \in 1..CsvColumns
    /\ ~IntRaises(Pad(row)[4])
    /\ ~IntRaises(Pad(row)[12])

\* C27: after an import, a task whose id a well-formed row of the file
\* carried holds the fields of the last such row (the table maps each id to
\* one row, so the id stays single).
C27_ImportUpsertsById ==
    [][op' = "import_tasks"
       => LET rows == file_io'.arg
          IN \A n \in 1..Len(rows) :
                (/\ WellFormed(rows[n])
                 /\ rows[n][1].k = "numeral"
                 /\ tasks[rows[n][1].v].present
                 /\ \A m \in (n + 1)..Len(rows) :
                       WellFormed(rows[m]) => rows[m][1] # rows[n][1])
                => tasks'[rows[n][1].v] = Values(Pad(rows[n]))]_vars

\* C28: an import leaves the table as the import of the file without its
\* malformed rows leaves it.
C28_MalformedRowsSkipped ==
    [][op' = "import_tasks"
       => tasks' = import_tasks(tasks, SelectSeq(file_io'.arg, WellFormed))]_vars

\* C31: while the engine exists, remaining is between 0 and the configured
\* duration of the current phase (a change of the settings reloads it), and
\* the phase is Focus, Short Break or Long Break.
C31_RemainingWithinPhase ==
    floating => /\ phase \in Phases
                /\ remaining >= 0
                /\ remaining <= Duration(phase)

\* a break has counted down to zero on a tick
C31_Witness ==
    /\ floating
    /\ op = "tick"
    /\ IsBreak(phase)
    /\ remaining = 0
    /\ is_running

\* C32: an open accrual window implies a running engine in Focus.
C32_WindowOnlyRunningFocus ==
    WindowOpen => is_running /\ phase = "Focus"

\* switch_phase to Focus on a running engine, after a Focus end, has opened
\* a window
C32_Witness ==
    /\ op = "switch_phase"
    /\ WindowOpen
    /\ session_start_time = now
    /\ completed_focus_count >= 1

\* C33: after every step nothing is pending (total_session_time = 0), and
\* a step that closes the window adds the whole seconds of the elapsed time
\* to the counter: the rest of a second is dropped, not carried.
C33_NothingPending ==
    [][/\ total_session_time' = 0
       /\ WindowOpen /\ ~WindowOpen'
          => StudyTime' = StudyTime + IntSecs(now - session_start_time)]_vars

\* pause() half a second after the start at time 0: nothing counted, nothing
\* pending
C33_Witness ==
    /\ op = "pause"
    /\ phase = "Focus"
    /\ ~is_running
    /\ now = 1
    /\ timer_deadline = Res
    /\ total_session_time = 0
    /\ StudyTime = study_base

\* C34: completed_focus_count and the pomodoros of a task go up only on the
\* tick that finds a Focus countdown at its end; reset, switch_phase, pause
\* and save_current_session leave both as they are.
C34_OnlyFocusEndCounts ==
    [][/\ (\/ completed_focus_count' # completed_focus_count
           \/ \E id \in TaskIds : tasks'[id].pomodoros > tasks[id].pomodoros)
          => op' = "phase_end" /\ phase = "Focus" /\ remaining <= 0
       /\ op' \in {"reset", "switch_phase", "pause", "save_current_session"}
          => /\ completed_focus_count' = completed_focus_count
             /\ tasks' = tasks]_vars

\* switch_phase took a running engine with a task attached out of a Focus
\* phase that had accrued time; nothing was counted
C34_Witness ==
    /\ op = "switch_phase"
    /\ IsBreak(phase)
    /\ StudyTime > study_base
    /\ completed_focus_count = 0
    /\ attached_task_id \in TaskIds
    /\ tasks[attached_task_id].present
    /\ tasks[attached_task_id].pomodoros = 0

\* C35: a phase loaded with duration D and left running ends on its
\* (D+1)-th tick: ticks 1..D take remaining from D to 0 in steps of one and
\* keep the phase; the next tick changes the phase and, instead of
\* decrementing, loads the duration of the phase entered.
C35_PhaseEndsOnTickAfterZero ==
    [][op' \in {"tick", "phase_end"} =>
         /\ remaining = Duration(phase) - file_io.arg
         /\ IF file_io'.ret <= Duration(phase)
            THEN /\ op' = "tick"
                 /\ phase' = phase
                 /\ remaining' = remaining - 1
            ELSE /\ op' = "phase_end"
                 /\ file_io'.ret = Duration(phase) + 1
                 /\ remaining = 0
                 /\ phase' # phase
                 /\ remaining' = Duration(phase')]_vars

\* a phase of two seconds has ended on its third tick
C35_Witness ==
    /\ op = "phase_end"
    /\ file_io.ret = 3
    /\ file_io.arg = 0
    /\ remaining = Duration(phase)

\* C36: save_current_session() closes an open Focus window, adding its
\* whole seconds to the counter, and leaves phase, remaining, the running
\* flag and the timer as they are: a running engine goes on ticking.
C36_SaveKeepsEngineRunning ==
    [][op' = "save_current_session" =>
         /\ session_start_time' = None
         /\ total_session_time' = 0
         /\ StudyTime' = StudyTime + (IF WindowOpen THEN IntSecs(Pending) ELSE 0)
         /\ phase' = phase
         /\ remaining' = remaining
         /\ is_running' = is_running
         /\ timer_active' = timer_active
         /\ timer_deadline' = timer_deadline
         /\ completed_focus_count' = completed_focus_count
         /\ attached_task_id' = attached_task_id]_vars

\* the session of an engine running in Focus was saved a second or more
\* after the start; the timer is still armed
C36_Witness ==
    /\ op = "save_current_session"
    /\ phase = "Focus"
    /\ is_running
    /\ timer_active
    /\ ~WindowOpen
    /\ completed_focus_count = 0
    /\ StudyTime > study_base

\* C37: when the settings dialog closes while a floating timer exists, by
\* OK or by Cancel, the engine is left stopped in Focus with the focus
\* duration now configured; the count and the attached task are kept.
C37_SettingsDialogResets ==
    [][op' = "open_settings" /\ floating =>
         /\ phase' = "Focus"
         /\ ~is_running'
         /\ ~timer_active'
         /\ remaining' = settings_manager'.focus_secs
         /\ session_start_time' = None
         /\ completed_focus_count' = completed_focus_count
         /\ attached_task_id' = attached_task_id]_vars

\* the dialog was cancelled (the default settings are still in force) over an
\* engine with a task attached that had accrued Focus time
C37_Witness ==
    /\ op = "open_settings"
    /\ floating
    /\ settings_manager = DefaultSettings
    /\ remaining = DefaultSettings.focus_secs
    /\ attached_task_id # NoTask
    /\ StudyTime > study_base
    /\ ~is_running

\* C38: completing a recurring task that was completed before (completed = 1
\* with a completion time) adds no task and changes no other task.
C38_AtMostOneSuccessor ==
    [][op' = "complete_task" /\ Recurs(tasks[file_io'.arg])
          /\ tasks[file_io'.arg].completed = 1
          /\ tasks[file_io'.arg].completed_at # Null
       => \A j \in StoreIds \ {file_io'.arg} : tasks'[j] = tasks[j]]_vars

====
